---- MODULE Spec2Model ----
(***************************************************************************)
(* A model of python-bunq's API class (src/bunq.py): the construction of   *)
(* the engine, query (header assembly, canonicalisation, signing and the   *)
(* hand-over to the HTTP transport) and verify (canonicalisation of a      *)
(* response and the signature check).                                      *)
(*                                                                         *)
(* A Python str is a sequence of one-character strings; a Python dict is   *)
(* the sequence of its <<key, value>> items in insertion order, with       *)
(* distinct keys; bytes are sequences of integers 0..255.                  *)
(***************************************************************************)
EXTENDS Integers, Sequences, FiniteSets, TLC

VARIABLES
    self,      \* the API object: its attributes (src/bunq.py:28-48)
    call,      \* the operation that ran last, with its arguments
    sent,      \* <<request>> handed to the transport by the last query
    signed,    \* <<[action, headers, payload, msg]>> canonicalised last
    vcheck,    \* <<[res, msg, out]>> of the verify that ran last
    ret,       \* how the last operation ended
    cin        \* <<input>> of the canonicalisation under CanonSpec

vars == <<self, call, sent, signed, vcheck, ret, cin>>

----------------------------------------------------------------------------
(* Bounds of the model. *)

\* number of distinct request ids (uuid1 values) a query may draw
NumRequestIds == 2

\* largest header mapping canonicalised under CanonSpec
MaxHeaders == 3

\* largest number of headers, the signature header aside, of a response
MaxResHeaders == 2

----------------------------------------------------------------------------
(* Python str: code points, comparison, join, startswith. *)

\* the ASCII characters of code points 32..95, in order
Ascii == <<" ","!","\"","#","$","%","&","'","(",")","*","+",",","-",".","/","0","1","2","3","4","5","6","7","8","9",":",";","<","=",">","?","@","A","B","C","D","E","F","G","H","I","J","K","L","M","N","O","P","Q","R","S","T","U","V","W","X","Y","Z","[","\\","]","^","_">>

\* the ASCII characters of code points 97..126, in order
AsciiHigh == <<"a","b","c","d","e","f","g","h","i","j","k","l","m","n","o","p","q","r","s","t","u","v","w","x","y","z","{","|","}","~">>

Range(s) == {s[i] : i \in 1..Len(s)}

\* ord(c), for the characters of the model
Ord == [c \in Range(Ascii) \cup Range(AsciiHigh) \cup {"\n"} |->
          IF c = "\n" THEN 10
          ELSE IF c \in Range(Ascii)
               THEN 31 + (CHOOSE i \in 1..Len(Ascii) : Ascii[i] = c)
               ELSE 96 + (CHOOSE i \in 1..Len(AsciiHigh) : AsciiHigh[i] = c)]

\* chr(n), for 32 <= n <= 126, n # 96
Chr(n) == IF n < 96 THEN Ascii[n - 31] ELSE AsciiHigh[n - 96]

Min(S) == CHOOSE m \in S : \A n \in S : m <= n

\* a < b for str: the code points at the first differing position decide,
\* a proper prefix is smaller
StrLt(a, b) ==
    LET n == IF Len(a) < Len(b) THEN Len(a) ELSE Len(b)
        d == {i \in 1..n : a[i] # b[i]}
    IN  IF d = {} THEN Len(a) < Len(b)
        ELSE Ord[a[Min(d)]] < Ord[b[Min(d)]]

\* x < y for the (key, value) tuples of dict.items()
ItemLt(x, y) == StrLt(x[1], y[1]) \/ (x[1] = y[1] /\ StrLt(x[2], y[2]))

RECURSIVE Insert(_, _)
Insert(x, s) ==
    IF s = <<>> THEN <<x>>
    ELSE IF ItemLt(x, s[1]) THEN <<x>> \o s
    ELSE <<s[1]>> \o Insert(x, Tail(s))

\* sorted(d.items()): the items in ascending order
RECURSIVE Sorted(_)
Sorted(items) ==
    IF items = <<>> THEN <<>>
    ELSE Insert(items[1], Sorted(Tail(items)))

\* sep.join(strs)
RECURSIVE Join(_, _)
Join(sep, strs) ==
    IF strs = <<>> THEN <<>>
    ELSE IF Len(strs) = 1 THEN strs[1]
    ELSE strs[1] \o sep \o Join(sep, Tail(strs))

\* s.startswith(p)
StartsWith(s, p) == Len(p) <= Len(s) /\ SubSeq(s, 1, Len(p)) = p

\* '%s' % n for an integer n >= 0
RECURSIVE IntToStr(_)
IntToStr(n) ==
    IF n < 10 THEN <<Chr(48 + n)>>
    ELSE IntToStr(n \div 10) \o <<Chr(48 + (n % 10))>>

\* msg.encode(): UTF-8, one byte per character for ASCII text
Encode(s) == [i \in 1..Len(s) |-> Ord[s[i]]]

----------------------------------------------------------------------------
(* Python dict, as the sequence of its items in insertion order. *)

Keys(d) == {d[i][1] : i \in 1..Len(d)}

\* d[k], for k in d
Get(d, k) == d[CHOOSE i \in 1..Len(d) : d[i][1] = k][2]

\* d[k] = v: replaces the value of a key in place, appends a new key
DictSet(d, k, v) ==
    IF k \in Keys(d)
    THEN [i \in 1..Len(d) |-> IF d[i][1] = k THEN <<k, v>> ELSE d[i]]
    ELSE Append(d, <<k, v>>)

\* bool(d)
Truthy(d) == Len(d) > 0

----------------------------------------------------------------------------
(* json.dumps of a dict of str to str, with the default separators. *)

\* the escapes of json's encoder for the characters of the model
JsonEscape(c) ==
    IF c = "\"" THEN <<"\\","\"">>
    ELSE IF c = "\\" THEN <<"\\","\\">>
    ELSE IF c = "\n" THEN <<"\\", "n">>
    ELSE <<c>>

JsonString(s) ==
    <<"\"">> \o Join(<<>>, [i \in 1..Len(s) |-> JsonEscape(s[i])]) \o <<"\"">>

JsonDumps(d) ==
    <<"{">>
    \o Join(<<","," ">>, [i \in 1..Len(d) |->
                       JsonString(d[i][1]) \o <<":"," ">> \o JsonString(d[i][2])])
    \o <<"}">>

----------------------------------------------------------------------------
(* Canonicalisation of a request, src/bunq.py:93-99. *)

\* '%s: %s' % (k, v)
FormatLine(item) == item[1] \o <<":"," ">> \o item[2]

HeaderBlockUnsorted(headers) ==
    Join(<<"\n">>, [i \in 1..Len(headers) |-> FormatLine(headers[i])])

\* '\n'.join(['%s: %s' % (k, v) for k, v in sorted(headers.items())])
HeaderBlock(headers) ==
    Join(<<"\n">>, [i \in 1..Len(headers) |-> FormatLine(Sorted(headers)[i])])

BodyPartAlways(payload) == JsonDumps(payload)

\* if payload: msg += json.dumps(payload)
BodyPart(payload) == IF Truthy(payload) THEN JsonDumps(payload) ELSE <<>>

CanonicalRequestSkippingEmptyBlock(action, headers, payload) ==
    IF Truthy(headers)
    THEN action \o <<"\n">> \o HeaderBlock(headers) \o <<"\n","\n">> \o BodyPart(payload)
    ELSE action \o <<"\n","\n">> \o BodyPart(payload)

\* msg = '%s\n%s\n\n' % (action, <header block>), then the body
CanonicalRequest(action, headers, payload) ==
    action \o <<"\n">> \o HeaderBlock(headers) \o <<"\n","\n">> \o BodyPart(payload)

----------------------------------------------------------------------------
(* Keys, signatures and base64.                                            *)
(* RSA with PKCS#1 v1.5 and SHA-256 is idealised: the signature of data    *)
(* under a key pair is a byte string only that pair's private key makes,   *)
(* the same for the same key and data, and different for different data.   *)

KeyTag(pair) == IF pair = "client" THEN 1 ELSE 2

\* private_key.sign(data, padding.PKCS1v15(), hashes.SHA256())
RsaSign(key, data) == <<KeyTag(key.pair)>> \o data

\* public_key.verify(signature, data, ...): FALSE stands for InvalidSignature
RsaVerify(key, signature, data) == signature = <<KeyTag(key.pair)>> \o data

B64Alphabet ==
    <<"A","B","C","D","E","F","G","H","I","J","K","L","M","N","O","P","Q","R","S","T","U","V","W","X","Y","Z","a","b","c","d","e","f","g","h","i","j","k","l","m","n","o","p","q","r","s","t","u","v","w","x","y","z","0","1","2","3","4","5","6","7","8","9","+","/">>

B64Index == [c \in Range(B64Alphabet) |->
               (CHOOSE i \in 1..Len(B64Alphabet) : B64Alphabet[i] = c) - 1]

\* base64.b64encode(b).decode()
B64Encode(b) ==
    LET n == Len(b)
        at(i) == IF i <= n THEN b[i] ELSE 0
        triple(g) == at(3 * g + 1) * 65536 + at(3 * g + 2) * 256 + at(3 * g + 3)
        shift(p) == CASE p = 0 -> 262144 [] p = 1 -> 4096 [] p = 2 -> 64 [] p = 3 -> 1
    IN  [j \in 1..(4 * ((n + 2) \div 3)) |->
            LET g == (j - 1) \div 4
                p == (j - 1) % 4
            IN  IF (p = 2 /\ 3 * g + 2 > n) \/ (p = 3 /\ 3 * g + 3 > n)
                THEN "="
                ELSE B64Alphabet[((triple(g) \div shift(p)) % 64) + 1]]

IsB64Char(c) == c \in Range(B64Alphabet)

IsPad(c) == c = "="

\* base64.b64decode(s), not validating: characters outside the alphabet are
\* discarded, the count of data characters and the padding decide whether
\* binascii.Error is raised (ok = FALSE). For texts whose "=" come last.
B64Decode(s) ==
    LET data == SelectSeq(s, IsB64Char)
        pads == Len(SelectSeq(s, IsPad))
        n == Len(data)
        q == n % 4
        six(i) == IF i <= n THEN B64Index[data[i]] ELSE 0
        quad(g) == six(4 * g + 1) * 262144 + six(4 * g + 2) * 4096
                   + six(4 * g + 3) * 64 + six(4 * g + 4)
        shift(r) == CASE r = 0 -> 65536 [] r = 1 -> 256 [] r = 2 -> 1
        nbytes == 3 * (n \div 4) + (IF q = 0 THEN 0 ELSE q - 1)
    IN  IF q = 1 \/ (q >= 2 /\ pads < 4 - q)
        THEN [ok |-> FALSE, bytes |-> <<>>]
        ELSE [ok |-> TRUE,
              bytes |-> [k \in 1..nbytes |->
                           (quad((k - 1) \div 3) \div shift((k - 1) % 3)) % 256]]

----------------------------------------------------------------------------
(* API.__init__, src/bunq.py:17-48. *)

ClientPrivatePem == <<"-","-","-","-","-","B","E","G","I","N"," ","P","R","I","V","A","T","E"," ","K","E","Y","-","-","-","-","-"," ","c","l","i","e","n","t">>

ServerPublicPem == <<"-","-","-","-","-","B","E","G","I","N"," ","P","U","B","L","I","C"," ","K","E","Y","-","-","-","-","-"," ","s","e","r","v","e","r">>

\* serialization.load_pem_private_key(prvkey_pem, ...)
LoadPemPrivateKey(pem) ==
    [kind |-> "private", pair |-> IF pem = ClientPrivatePem THEN "client" ELSE "other"]

\* serialization.load_pem_public_key(srvkey_pem, ...)
LoadPemPublicKey(pem) ==
    [kind |-> "public", pair |-> IF pem = ServerPublicPem THEN "server" ELSE "other"]

\* the attributes of the object __init__ leaves: server_key is set only
\* when srvkey_pem is given
Construct(prvkey_pem, token, srvkey_pem) ==
    IF Truthy(srvkey_pem)
    THEN [token       |-> token,
          uri         |-> <<"h","t","t","p","s",":","/","/","a","p","i",".","b","u","n","q",".","c","o","m">>,
          api_version |-> <<"v","1">>,
          private_key |-> LoadPemPrivateKey(prvkey_pem),
          server_key  |-> LoadPemPublicKey(srvkey_pem)]
    ELSE [token       |-> token,
          uri         |-> <<"h","t","t","p","s",":","/","/","a","p","i",".","b","u","n","q",".","c","o","m">>,
          api_version |-> <<"v","1">>,
          private_key |-> LoadPemPrivateKey(prvkey_pem)]

\* __version__, read from the file VERSION when the module is imported
Version == <<"0",".","1">>

Tokens == { <<>>, <<"t","o","k">> }

ServerPems == { <<>>, ServerPublicPem }

----------------------------------------------------------------------------
(* API.sign, src/bunq.py:113-126. *)

Sign(obj, msg) == B64Encode(RsaSign(obj.private_key, Encode(msg)))

----------------------------------------------------------------------------
(* API.verify, src/bunq.py:128-167. *)

Return(v) == [kind |-> "return", value |-> v]

Raise(e) == [kind |-> "raise", value |-> e]

\* no call is under way: the caller is between two calls
Ready == [kind |-> "ready", value |-> "None"]

\* str.lower(), as the case-insensitive dict of a response's headers folds
\* the names it is asked for
Lower(s) ==
    [i \in 1..Len(s) |->
        IF Ord[s[i]] >= 65 /\ Ord[s[i]] <= 90 THEN Chr(Ord[s[i]] + 32) ELSE s[i]]

\* name in res.headers
HasCI(d, k) == \E i \in 1..Len(d) : Lower(d[i][1]) = Lower(k)

\* res.headers[name]
GetCI(d, k) == d[CHOOSE i \in 1..Len(d) : Lower(d[i][1]) = Lower(k)][2]

RequestIdName == <<"X","-","B","u","n","q","-","C","l","i","e","n","t","-","R","e","q","u","e","s","t","-","I","d">>

ResponseIdName == <<"X","-","B","u","n","q","-","C","l","i","e","n","t","-","R","e","s","p","o","n","s","e","-","I","d">>

ServerSignatureName == <<"X","-","B","u","n","q","-","S","e","r","v","e","r","-","S","i","g","n","a","t","u","r","e">>

\* srv_headers
srv_headers == << RequestIdName, ResponseIdName >>

SelectAll(items) == items

\* [... for k, v in sorted(res.headers.items()) if k in srv_headers]
RECURSIVE SelectSrv(_)
SelectSrv(items) ==
    IF items = <<>> THEN <<>>
    ELSE IF items[1][1] \in Range(srv_headers)
         THEN <<items[1]>> \o SelectSrv(Tail(items))
         ELSE SelectSrv(Tail(items))

\* msg = '%s\n%s\n\n%s' % (res.status_code, <header lines>, res.text)
CanonicalResponse(res) ==
    LET kept == SelectSrv(Sorted(res.headers))
    IN  IntToStr(res.status_code) \o <<"\n">>
        \o Join(<<"\n">>, [i \in 1..Len(kept) |-> FormatLine(kept[i])])
        \o <<"\n","\n">> \o res.text

\* the names bound at module level by the imports, the with statement and
\* the class statement of src/bunq.py
ModuleGlobals ==
    { "base64", "json", "requests", "uuid", "InvalidSignature",
      "default_backend", "serialization", "hashes", "padding",
      "f", "__version__", "API" }

\* an RSA key object defines neither __bool__ nor __len__
ObjectTruthy(key) == TRUE

\* verify(res): the canonical response it computed, if it got that far, and
\* how it ended
VerifyRun(obj, res) ==
    IF "server_key" \notin DOMAIN obj
    THEN [msg |-> <<>>, out |-> Raise("AttributeError")]
    ELSE IF ~ObjectTruthy(obj.server_key)
    THEN [msg |-> <<>>, out |-> Return("None")]
    ELSE LET msg == CanonicalResponse(res)
         IN  IF ~HasCI(res.headers, ServerSignatureName)
             THEN [msg |-> <<msg>>, out |-> Raise("KeyError")]
             ELSE LET dec == B64Decode(GetCI(res.headers, ServerSignatureName))
                  IN  IF ~dec.ok
                      THEN [msg |-> <<msg>>, out |-> Raise("binascii.Error")]
                      ELSE IF "server_key" \notin ModuleGlobals
                      THEN [msg |-> <<msg>>, out |-> Raise("NameError")]
                      ELSE IF RsaVerify([kind |-> "module", pair |-> "server_key"],
                                        dec.bytes, Encode(msg))
                      THEN [msg |-> <<msg>>, out |-> Return("True")]
                      ELSE [msg |-> <<msg>>, out |-> Return("False")]

----------------------------------------------------------------------------
(* API.query, src/bunq.py:50-111. *)

\* lines 68-72
Method(method, payload) ==
    IF ~Truthy(method)
    THEN IF ~Truthy(payload) THEN <<"G","E","T">> ELSE <<"P","O","S","T">>
    ELSE method

\* lines 74-77
Endpoint(obj, endpoint) ==
    IF ~StartsWith(endpoint, <<"/">>)
    THEN <<"/">> \o obj.api_version \o <<"/">> \o endpoint
    ELSE IF ~StartsWith(endpoint, <<"/">> \o obj.api_version)
    THEN <<"/">> \o obj.api_version \o endpoint
    ELSE endpoint

AuthenticationName == <<"X","-","B","u","n","q","-","C","l","i","e","n","t","-","A","u","t","h","e","n","t","i","c","a","t","i","o","n">>

ClientSignatureName == <<"X","-","B","u","n","q","-","C","l","i","e","n","t","-","S","i","g","n","a","t","u","r","e">>

BaseHeaders(request_id) ==
    << <<<<"C","a","c","h","e","-","C","o","n","t","r","o","l">>, <<"n","o","-","c","a","c","h","e">>>>,
       <<<<"U","s","e","r","-","A","g","e","n","t">>, <<"p","y","t","h","o","n","-","b","u","n","q","-","a","p","i","/">> \o Version>>,
       <<RequestIdName, request_id>>,
       <<<<"X","-","B","u","n","q","-","G","e","o","l","o","c","a","t","i","o","n">>, <<"0"," ","0"," ","0"," ","0"," ","N","L">>>>,
       <<<<"X","-","B","u","n","q","-","L","a","n","g","u","a","g","e">>, <<"e","n","_","U","S">>>>,
       <<<<"X","-","B","u","n","q","-","R","e","g","i","o","n">>, <<"n","l","_","N","L">>>> >>

\* lines 81-91: the headers that are canonicalised
SignedHeaders(obj, request_id) ==
    IF Truthy(obj.token)
    THEN DictSet(BaseHeaders(request_id), AuthenticationName, obj.token)
    ELSE BaseHeaders(request_id)

ResignedHeaders(obj, headers, msg) ==
    DictSet(DictSet(headers, ClientSignatureName, Sign(obj, msg)),
            <<"X","-","B","u","n","q","-","G","e","o","l","o","c","a","t","i","o","n">>, <<"0"," ","0"," ","0"," ","0"," ">>)

\* line 101: the headers handed to the transport
SentHeaders(obj, headers, msg) ==
    DictSet(headers, ClientSignatureName, Sign(obj, msg))

\* lines 103-106: requests.post(url, headers=headers, json=payload) or
\* requests.get(url, headers=headers). data is the body text handed to the
\* transport (none is), json the object it is left to serialise
Request(url, headers, payload) ==
    IF Truthy(payload)
    THEN [verb |-> <<"P","O","S","T">>, url |-> url, headers |-> headers,
          json |-> <<payload>>, data |-> <<>>]
    ELSE [verb |-> <<"G","E","T">>, url |-> url, headers |-> headers,
          json |-> <<>>, data |-> <<>>]

\* str(uuid.uuid1()), the n-th value drawn
RequestId(n) == <<"u","u","i","d","-">> \o IntToStr(n)

Endpoints == { <<"u","s","e","r">>, <<"/","u","s","e","r">>, <<"/","v","1","/","u","s","e","r">> }

Methods == { <<>>, <<"G","E","T">>, <<"P","U","T">>, <<"D","E","L","E","T","E">> }

QueryPayloads == { <<>>, << <<<<"a","m","o","u","n","t">>, <<"1","0",".","0","0">>>> >> }

\* the server's signature of a response, under the key pair named
ServerSign(pair, res) ==
    B64Encode(RsaSign([kind |-> "private", pair |-> pair],
                      Encode(CanonicalResponse(res))))

WithSignature(res, value) ==
    [res EXCEPT !.headers = Append(res.headers, <<ServerSignatureName, value>>)]

ResHeaderPool ==
    { <<RequestIdName, RequestId(1)>>,
      <<ResponseIdName, <<"r","s","p","-","7">>>>,
      <<<<"C","o","n","t","e","n","t","-","T","y","p","e">>, <<"a","p","p","l","i","c","a","t","i","o","n","/","j","s","o","n">>>>,
      <<Lower(RequestIdName), RequestId(2)>> }

RECURSIVE ItemSeqs(_, _)
ItemSeqs(pool, n) ==
    IF n = 0 THEN { <<>> }
    ELSE LET smaller == ItemSeqs(pool, n - 1)
         IN  smaller \cup
             { Append(d, x) : d \in {e \in smaller : Len(e) = n - 1}, x \in pool }

\* a response's headers hold one item per name, whatever its case
DistinctKeysCI(d) == Cardinality({Lower(d[i][1]) : i \in 1..Len(d)}) = Len(d)

UnsignedResponses ==
    { [status_code |-> 200, headers |-> h, text |-> <<"{","\"","R","e","s","p","o","n","s","e","\"",":"," ","[","]","}">>] :
        h \in {d \in ItemSeqs(ResHeaderPool, MaxResHeaders) : DistinctKeysCI(d)} }

\* what a response may carry as its signature: the server's signature of
\* it, the signature of its text with another status code, body or request
\* id, a signature under another key, text that is not base64
SignatureValues(res) ==
    { ServerSign("server", res),
      ServerSign("server", [res EXCEPT !.status_code = 500]),
      ServerSign("server", [res EXCEPT !.text = <<"{","}">>]),
      ServerSign("server",
                 [res EXCEPT !.headers = DictSet(res.headers, RequestIdName,
                                                 RequestId(0))]),
      ServerSign("client", res),
      <<"Q","U","J","D">>,
      <<"!","!","!","!">>,
      <<"A","A","A","A","A">> }

Responses ==
    UnsignedResponses
    \cup UNION { { WithSignature(res, v) : v \in SignatureValues(res) } :
                 res \in UnsignedResponses }

\* the responses the transport hands back to query
TransportResponses ==
    LET res == [status_code |-> 200,
                headers |-> << <<RequestIdName, RequestId(1)>>,
                               <<ResponseIdName, <<"r","s","p","-","7">>>> >>,
                text |-> <<"{","\"","R","e","s","p","o","n","s","e","\"",":"," ","[","]","}">>]
    IN  { WithSignature(res, ServerSign("server", res)),
          WithSignature(res, <<"A","A","A","A","A">>) }

Init ==
    /\ \E token \in Tokens, srvkey_pem \in ServerPems :
           self = Construct(ClientPrivatePem, token, srvkey_pem)
    /\ call = [op |-> "init"]
    /\ sent = <<>>
    /\ signed = <<>>
    /\ vcheck = <<>>
    /\ ret = Ready
    /\ cin = <<>>

Query(endpoint, payload, method0, verify, request_id, r) ==
    LET method  == Method(method0, payload)
        ep      == Endpoint(self, endpoint)
        action  == method \o <<" ">> \o ep
        url     == self.uri \o ep
        headers == SignedHeaders(self, request_id)
        msg     == CanonicalRequest(action, headers, payload)
        request == Request(url, SentHeaders(self, headers, msg), payload)
        v       == VerifyRun(self, r)
    IN  /\ ret = Ready
        /\ call' = [op |-> "query", endpoint |-> endpoint, payload |-> payload,
                    method |-> method0, verify |-> verify,
                    request_id |-> request_id, r |-> r]
        /\ signed' = << [action |-> action, headers |-> headers,
                         payload |-> payload, msg |-> msg] >>
        /\ sent' = << request >>
        /\ vcheck' = IF verify THEN << [res |-> r, msg |-> v.msg, out |-> v.out] >>
                     ELSE <<>>
        /\ ret' = IF verify /\ v.out.kind = "raise" THEN v.out
                  ELSE Return("Response")
        /\ UNCHANGED <<self, cin>>

Verify(res) ==
    LET v == VerifyRun(self, res)
    IN  /\ ret = Ready
        /\ call' = [op |-> "verify", res |-> res]
        /\ signed' = <<>>
        /\ sent' = <<>>
        /\ vcheck' = << [res |-> res, msg |-> v.msg, out |-> v.out] >>
        /\ ret' = v.out
        /\ UNCHANGED <<self, cin>>

\* the call has returned or raised: its locals are gone, the caller goes on
Returned ==
    /\ ret # Ready
    /\ call' = [op |-> "init"]
    /\ signed' = <<>>
    /\ sent' = <<>>
    /\ vcheck' = <<>>
    /\ ret' = Ready
    /\ UNCHANGED <<self, cin>>

Next ==
    \/ \E endpoint \in Endpoints, payload \in QueryPayloads, method \in Methods,
          verify \in BOOLEAN, n \in 1..NumRequestIds, r \in TransportResponses :
           Query(endpoint, payload, method, verify, RequestId(n), r)
    \/ \E res \in Responses : Verify(res)
    \/ Returned

Spec == Init /\ [][Next]_vars

----------------------------------------------------------------------------
(* CanonSpec: the canonicalisation applied to bounded inputs. *)

HeaderNamePool ==
    { <<"C","a","c","h","e","-","C","o","n","t","r","o","l">>, <<"U","s","e","r","-","A","g","e","n","t">>, <<"X","-","B","u","n","q","-","R","e","g","i","o","n">>, <<"a","c","c","e","p","t">> }

HeaderValuePool == { <<"n","o","-","c","a","c","h","e">>, <<"x","/","1",".","0">> }

\* the dicts of at most n items with keys from names and values from values
RECURSIVE Dicts(_, _, _)
Dicts(names, values, n) ==
    IF n = 0 THEN { <<>> }
    ELSE LET smaller == Dicts(names, values, n - 1)
         IN  smaller \cup
             { Append(d, <<k, v>>) :
                 d \in {e \in smaller : Len(e) = n - 1},
                 k \in names, v \in values }

DistinctKeys(d) == Cardinality(Keys(d)) = Len(d)

HeaderMappings ==
    { d \in Dicts(HeaderNamePool, HeaderValuePool, MaxHeaders) : DistinctKeys(d) }

Payloads ==
    { <<>>,
      << <<<<"a","m","o","u","n","t">>, <<"1","0",".","0","0">>>> >>,
      << <<<<"d","e","s","c","r","i","p","t","i","o","n">>, <<"a"," ","\"","b","\"">>>>, <<<<"a","m","o","u","n","t">>, <<"1","0",".","0","0">>>> >> }

CanonActions ==
    { <<"G","E","T"," ","/","v","1","/","f","o","o">>, <<"P","O","S","T"," ","/","v","1","/","p","a","y","m","e","n","t">> }

CanonInputs ==
    [action : CanonActions, headers : HeaderMappings, payload : Payloads]

CanonInit ==
    /\ self = Construct(ClientPrivatePem, <<>>, <<>>)
    /\ call = [op |-> "init"]
    /\ sent = <<>>
    /\ signed = <<>>
    /\ vcheck = <<>>
    /\ ret = Ready
    /\ cin \in { <<i>> : i \in CanonInputs }

Canonicalize ==
    /\ cin # <<>>
    /\ signed = <<>>
    /\ signed' = << [action  |-> cin[1].action,
                     headers |-> cin[1].headers,
                     payload |-> cin[1].payload,
                     msg     |-> CanonicalRequest(cin[1].action, cin[1].headers,
                                                  cin[1].payload)] >>
    /\ UNCHANGED <<self, call, sent, vcheck, ret, cin>>

CanonNext == Canonicalize

CanonSpec == CanonInit /\ [][CanonNext]_vars

----------------------------------------------------------------------------
(* Helpers of the properties. *)

\* s.split('\n')
RECURSIVE Split(_)
Split(s) ==
    IF \A i \in 1..Len(s) : s[i] # "\n" THEN <<s>>
    ELSE LET i == Min({j \in 1..Len(s) : s[j] = "\n"})
         IN  <<SubSeq(s, 1, i - 1)>> \o Split(SubSeq(s, i + 1, Len(s)))

EndsWith(s, t) ==
    Len(t) <= Len(s) /\ SubSeq(s, Len(s) - Len(t) + 1, Len(s)) = t

\* a comes before b in ordinal order: decided by the code points, from the left
RECURSIVE OrdinalLess(_, _)
OrdinalLess(a, b) ==
    IF b = <<>> THEN FALSE
    ELSE IF a = <<>> THEN TRUE
    ELSE IF a[1] = b[1] THEN OrdinalLess(Tail(a), Tail(b))
    ELSE Ord[a[1]] < Ord[b[1]]

Orders(n) ==
    {p \in [1..n -> 1..n] : \A i, j \in 1..n : p[i] = p[j] => i = j}

Permuted(d, p) == [i \in 1..Len(d) |-> d[p[i]]]

\* the JSON text of the payloads of the model, written out
ExpectedJson(payload) ==
    IF payload = << <<<<"a","m","o","u","n","t">>, <<"1","0",".","0","0">>>> >>
    THEN <<"{","\"","a","m","o","u","n","t","\"",":"," ","\"","1","0",".","0","0","\"","}">>
    ELSE IF payload = << <<<<"d","e","s","c","r","i","p","t","i","o","n">>, <<"a"," ","\"","b","\"">>>>, <<<<"a","m","o","u","n","t">>, <<"1","0",".","0","0">>>> >>
    THEN <<"{","\"","d","e","s","c","r","i","p","t","i","o","n","\"",":"," ","\"","a"," ","\\","\"","b","\\","\"","\"",","," ","\"","a","m","o","u","n","t","\"",":"," ","\"","1","0",".","0","0","\"","}">>
    ELSE <<>>

\* the response's signature header holds the server's signature of the
\* canonical response
SignatureValid(res) ==
    /\ HasCI(res.headers, ServerSignatureName)
    /\ GetCI(res.headers, ServerSignatureName) = ServerSign("server", res)

VerifyRan == vcheck # <<>>

QueryRan == sent # <<>> /\ signed # <<>>

CanonRan == cin # <<>> /\ signed # <<>>

----------------------------------------------------------------------------
(* C1. *)

\* C1: with no server public key configured, every verify returns the
\* "skipped" outcome (the bare return, None) and does not raise.
C1_SkippedWithoutKey ==
    (VerifyRan /\ "server_key" \notin DOMAIN self)
        => vcheck[1].out = Return("None")

----------------------------------------------------------------------------
(* C2. *)

\* C2: with a server public key, verify of a response whose signature
\* header is not base64 or is not the server's signature of the canonical
\* response returns False and does not raise.
C2_InvalidSignatureReturnsFalse ==
    (/\ VerifyRan
     /\ "server_key" \in DOMAIN self
     /\ HasCI(vcheck[1].res.headers, ServerSignatureName)
     /\ ~SignatureValid(vcheck[1].res))
        => vcheck[1].out = Return("False")

----------------------------------------------------------------------------
(* C3. *)

\* C3: with the server's public key, verify of a response that carries the
\* server's signature of its canonical bytes returns True.
C3_ValidSignatureReturnsTrue ==
    (/\ VerifyRan
     /\ "server_key" \in DOMAIN self
     /\ SignatureValid(vcheck[1].res))
        => vcheck[1].out = Return("True")

----------------------------------------------------------------------------
(* C4. *)

\* C4: the header block of the canonical request holds one 'Name: Value'
\* line per header, in ascending ordinal order of the names, and every
\* insertion order of the same name-value pairs canonicalises to the same
\* string.
C4_SortInvariant ==
    CanonRan =>
        LET h == signed[1].headers
            n == Len(h)
            lines == Split(signed[1].msg)
        IN  /\ Len(lines) >= n + 1
            /\ \E p \in Orders(n) :
                  /\ \A k \in 1..n : lines[k + 1] = FormatLine(h[p[k]])
                  /\ \A k \in 1..(n - 1) : OrdinalLess(h[p[k]][1], h[p[k + 1]][1])
            /\ \A p \in Orders(n) :
                  CanonicalRequest(signed[1].action, Permuted(h, p),
                                   signed[1].payload) = signed[1].msg

\* three headers inserted in descending order of name, a lower-case name first
C4_Witness ==
    /\ CanonRan
    /\ Len(signed[1].headers) = 3
    /\ signed[1].headers[1][1] = <<"a","c","c","e","p","t">>
    /\ signed[1].headers[2][1] = <<"X","-","B","u","n","q","-","R","e","g","i","o","n">>
    /\ signed[1].headers[3][1] = <<"C","a","c","h","e","-","C","o","n","t","r","o","l">>
    /\ signed[1].headers[1][2] # signed[1].headers[2][2]

----------------------------------------------------------------------------
(* C5. *)

\* C5: the body handed to the transport is the text json.dumps produced for
\* the canonical string; the payload is not left to be serialised again.
C5_BodySerializedOnce ==
    (QueryRan /\ Truthy(call.payload))
        => /\ sent[1].data = <<JsonDumps(call.payload)>>
           /\ sent[1].json = <<>>
           /\ EndsWith(signed[1].msg, JsonDumps(call.payload))

----------------------------------------------------------------------------
(* C6. *)

\* C6: the request is sent with the method of the signed action line: the
\* caller's method when given, else GET without payload and POST with one.
C6_SentMethodIsSignedMethod ==
    QueryRan =>
        /\ StartsWith(signed[1].action, sent[1].verb \o <<" ">>)
        /\ Truthy(call.method) => sent[1].verb = call.method
        /\ ~Truthy(call.method) =>
              sent[1].verb = (IF Truthy(call.payload) THEN <<"P","O","S","T">> ELSE <<"G","E","T">>)

----------------------------------------------------------------------------
(* C7. *)

----------------------------------------------------------------------------
(* C8. *)

\* C8: with a non-empty header set the canonical request is the action
\* line, the header lines, one blank line, then the JSON text of a non-empty
\* payload and nothing for an empty one; the result for an empty payload is
\* the result for any payload with the body text removed.
C8_BodyAbsence ==
    (CanonRan /\ Truthy(signed[1].headers)) =>
        LET h == signed[1].headers
            n == Len(h)
            msg == signed[1].msg
            lines == Split(msg)
        IN  /\ Len(lines) = n + 3
            /\ lines[1] = signed[1].action
            /\ {lines[k + 1] : k \in 1..n} = {FormatLine(h[i]) : i \in 1..n}
            /\ lines[n + 2] = <<>>
            /\ lines[n + 3] = ExpectedJson(signed[1].payload)
            /\ signed[1].payload = <<>> =>
                  /\ EndsWith(msg, <<"\n","\n">>)
                  /\ \A p \in Payloads \ {<<>>} :
                        CanonicalRequest(signed[1].action, h, p)
                            = msg \o ExpectedJson(p)
            /\ (/\ signed[1].action = <<"P","O","S","T"," ","/","v","1","/","p","a","y","m","e","n","t">>
                /\ h = << <<<<"U","s","e","r","-","A","g","e","n","t">>, <<"x","/","1",".","0">>>>,
                          <<<<"C","a","c","h","e","-","C","o","n","t","r","o","l">>, <<"n","o","-","c","a","c","h","e">>>> >>
                /\ signed[1].payload = << <<<<"a","m","o","u","n","t">>, <<"1","0",".","0","0">>>> >>)
                  => msg = <<"P","O","S","T"," ","/","v","1","/","p","a","y","m","e","n","t","\n","C","a","c","h","e","-","C","o","n","t","r","o","l",":"," ","n","o","-","c","a","c","h","e","\n","U","s","e","r","-","A","g","e","n","t",":"," ","x","/","1",".","0","\n","\n","{","\"","a","m","o","u","n","t","\"",":"," ","\"","1","0",".","0","0","\"","}">>

\* a request with headers and no payload has been canonicalised
C8_Witness ==
    /\ CanonRan
    /\ signed[1].action = <<"P","O","S","T"," ","/","v","1","/","p","a","y","m","e","n","t">>
    /\ signed[1].headers = << <<<<"U","s","e","r","-","A","g","e","n","t">>, <<"x","/","1",".","0">>>>,
                              <<<<"C","a","c","h","e","-","C","o","n","t","r","o","l">>, <<"n","o","-","c","a","c","h","e">>>> >>
    /\ signed[1].payload = <<>>
    /\ signed[1].msg = <<"P","O","S","T"," ","/","v","1","/","p","a","y","m","e","n","t","\n","C","a","c","h","e","-","C","o","n","t","r","o","l",":"," ","n","o","-","c","a","c","h","e","\n","U","s","e","r","-","A","g","e","n","t",":"," ","x","/","1",".","0","\n","\n">>

----------------------------------------------------------------------------
(* C9. *)

\* the header lines of a canonical response, written out: the request id
\* line, then the response id line, each when the response has that header
AllowListLines(h) ==
    (IF RequestIdName \in Keys(h)
     THEN <<RequestIdName \o <<":"," ">> \o Get(h, RequestIdName)>> ELSE <<>>)
    \o
    (IF ResponseIdName \in Keys(h)
     THEN <<ResponseIdName \o <<":"," ">> \o Get(h, ResponseIdName)>> ELSE <<>>)

Without(d, i) == SubSeq(d, 1, i - 1) \o SubSeq(d, i + 1, Len(d))

\* C9: the header lines of the canonical response are those of the
\* allow-listed headers only, sorted by name; removing, changing or adding
\* any other header, the signature header included, leaves the canonical
\* response as it is.
C9_AllowListOnly ==
    (VerifyRan /\ vcheck[1].msg # <<>>) =>
        LET res == vcheck[1].res
            h == res.headers
            msg == vcheck[1].msg[1]
            others == {i \in 1..Len(h) : h[i][1] \notin {RequestIdName, ResponseIdName}}
        IN  /\ msg = IntToStr(res.status_code) \o <<"\n">>
                     \o Join(<<"\n">>, AllowListLines(h))
                     \o <<"\n","\n">> \o res.text
            /\ \A i \in others :
                  /\ CanonicalResponse([res EXCEPT !.headers = Without(h, i)]) = msg
                  /\ CanonicalResponse(
                        [res EXCEPT !.headers = DictSet(h, h[i][1], <<"c","h","a","n","g","e","d">>)]) = msg
            /\ CanonicalResponse(
                  [res EXCEPT !.headers = Append(h, <<<<"X","-","O","t","h","e","r">>, <<"1">>>>)]) = msg

\* verify canonicalised a response that holds the response id before the
\* request id, and a signature header
C9_Witness ==
    /\ VerifyRan
    /\ vcheck[1].msg # <<>>
    /\ Len(vcheck[1].res.headers) = 3
    /\ vcheck[1].res.headers[1][1] = ResponseIdName
    /\ vcheck[1].res.headers[2][1] = RequestIdName
    /\ vcheck[1].res.headers[3][1] = ServerSignatureName

----------------------------------------------------------------------------
(* C10. *)

\* the header lines of a canonical request with n headers
HeaderLines(msg, n) == {Split(msg)[k + 1] : k \in 1..n}

\* C10: the headers handed to the transport are the canonicalised headers
\* plus the one signature header, which signs the canonical string; the
\* authentication header is among the signed lines exactly when a token is
\* set, the signature header never is.
C10_SignedThenSent ==
    QueryRan =>
        LET sh == signed[1].headers
            th == sent[1].headers
            msg == signed[1].msg
            n == Len(sh)
        IN  /\ Len(th) = n + 1
            /\ {th[i] : i \in 1..Len(th)}
                  = {sh[i] : i \in 1..n}
                    \cup {<<ClientSignatureName, Get(th, ClientSignatureName)>>}
            /\ ClientSignatureName \in Keys(th)
            /\ ClientSignatureName \notin Keys(sh)
            /\ Get(th, ClientSignatureName) = Sign(self, msg)
            /\ HeaderLines(msg, n)
                  = {FormatLine(th[i]) : i \in {j \in 1..Len(th) :
                                                  th[j][1] # ClientSignatureName}}
            /\ \A l \in HeaderLines(msg, n) :
                  ~StartsWith(l, ClientSignatureName)
            /\ Split(msg)[n + 2] = <<>>
            /\ Truthy(self.token)
                  <=> (AuthenticationName \o <<":"," ">> \o self.token)
                          \in HeaderLines(msg, n)
            /\ ~Truthy(self.token) => AuthenticationName \notin Keys(th)

\* a query with a token and a payload has signed and sent its request
C10_Witness ==
    /\ QueryRan
    /\ Truthy(self.token)
    /\ Truthy(call.payload)
    /\ AuthenticationName \in Keys(sent[1].headers)
    /\ ClientSignatureName \in Keys(sent[1].headers)

====
